---- MODULE Spec2Model ----
(***************************************************************************)
(* The spawn_worker trampoline (src/spawn_worker/src/trampoline.c): main() *)
(* as a sequential state machine, one action per statement group, for the  *)
(* POSIX build (#ifndef _WIN32) and the Windows build (#else).             *)
(*                                                                         *)
(* The environment is nondeterministic: every dlopen/LoadLibrary,          *)
(* dlsym/GetProcAddress, unlink, dlclose and fopen call may succeed or     *)
(* fail.  A symbol that resolves has a non-null address.  Under Spec the    *)
(* allocation (calloc) succeeds; SpecAlloc adds the runs in which it       *)
(* returns NULL.                                                           *)
(*                                                                         *)
(* SpecHook is the start-up hook proof of concept                          *)
(* (src/serverless/c_agent_poc/main.c and main_init.c): a parent and a     *)
(* forked child that run concurrently.                                     *)
(***************************************************************************)
EXTENDS Integers, Sequences, FiniteSets, TLC

\* ------------------------------------------------------------------ bounds

\* Largest number of dependency arguments (argv[3] .. argv[argc-2]) explored.
MaxDeps == 3

\* ------------------------------------------------------- program constants

MIN_ARGC_EXCL   == 3      \* line 28: argc > 3
EXIT_OK         == 0      \* lines 41, 124
EXIT_BAD_ARGS   == 12     \* line 127

\* (mutant) a dependency failure reported with the target's code
EXIT_DEP_FAIL_asLib == 9 + 1
EXIT_DEP_FAIL   == 9      \* lines 63, 103

\* (mutant) a target failure reported with the dependency code
EXIT_LIB_FAIL_asDep == 10 - 1
EXIT_LIB_FAIL   == 10     \* lines 74, 111

\* (mutant) a resolution failure that falls through to the final return 0
EXIT_SYM_FAIL_asOk == EXIT_OK
EXIT_SYM_FAIL   == 11     \* lines 85, 119

DUMMY_MIRROR == "__dummy_mirror_test"
MARKER       == "-"

\* A null pointer (handle, FILE*, char* or function pointer).
NULL == <<>>

\* ------------------------------------------------------------ input space

Platforms   == {"posix", "win32"}
ProgName    == "trampoline"
TempPaths   == {"", "/tmp/launcher"}
LibPaths    == {"libtarget.so", DUMMY_MIRROR}
DepArgs     == {MARKER, "libdep.so", "libhelper.so"}
SymbolNames == {"do_init", MARKER, "libhelper.so"}
LogEnvs     == {NULL, <<"/var/log/dd.log">>}

DepSeqs == UNION {[1..n -> DepArgs] : n \in 0..MaxDeps}

\* argv of a well-formed invocation: program, temp path, target, deps, symbol.
MkArgv(tmp, lib, deps, sym) ==
    [k \in 0..(3 + Len(deps)) |->
        IF k = 0 THEN ProgName
        ELSE IF k = 1 THEN tmp
        ELSE IF k = 2 THEN lib
        ELSE IF k = 3 + Len(deps) THEN sym
        ELSE deps[k - 2]]

\* argv of an invocation with fewer than four arguments.
ShortArgvs ==
    {[k \in 0..(n - 1) |-> IF k = 0 THEN ProgName ELSE IF k = 1 THEN tmp ELSE lib] :
        n \in 1..3, tmp \in TempPaths, lib \in LibPaths}

\* The end-to-end invocation of the specification's section 8, argument for
\* argument: argv[1] = "", argv[2] = "libdep.so", ..., argv[6] = "do_init".
EndToEndArgv ==
    MkArgv("", "libdep.so", <<MARKER, "libhelper.so", "libtarget.so">>, "do_init")

Argvs ==
    ShortArgvs \cup {EndToEndArgv} \cup
    {MkArgv(tmp, lib, deps, sym) :
        tmp \in TempPaths, lib \in LibPaths, deps \in DepSeqs, sym \in SymbolNames}

VARIABLES
    platform,      \* which #ifdef branch was compiled
    argv,          \* char *argv[], indexed from 0
    log_env,       \* getenv("DD_TRACE_LOG_FILE"): NULL or <<path>>
    log_prior,     \* what the log file holds when main starts
    pc,            \* position in main()
    i,             \* loop index
    handles,       \* void **handles: NULL or the calloc'ed array, indexed from 0
    count,         \* additional_shared_libraries_count
    unlink_next,   \* bool unlink_next
    handle,        \* the target library's handle
    fn,            \* void (*fn)()
    dl_error,      \* the loader's pending error text (what dlerror() returns)
    files,         \* names of the files that exist
    loaded,        \* library handles currently mapped
    stdout,        \* bytes written to standard output
    log_file,      \* lines of the log file named by log_env
    stderr_out,    \* lines written to standard error
    fopen_log,     \* result of each fopen(log_env, "a") call, in call order
    events,        \* history of loader and file-system calls, in call order
    exit_code,     \* <<>> while running, <<code>> once main has returned
    hook           \* the start-up hook proof of concept (serverless/c_agent_poc)

vars == <<platform, argv, log_env, log_prior, pc, i, handles, count, unlink_next,
          handle, fn, dl_error, files, loaded, stdout, log_file, stderr_out,
          fopen_log, events, exit_code, hook>>

argc == Cardinality(DOMAIN argv)

\* Every name on the command line names a file that exists when main starts.
InitialFiles == {argv[k] : k \in 1..(argc - 1)} \ {""}

\* What the log file holds before this run appends to it.
PriorLog == <<"earlier entry\n">>

Ev(op, arg, ok) == [op |-> op, arg |-> arg, ok |-> ok]

\* ------------------------------------------------------- pure helpers

\* (mutant) off by one: argc > 2
HasEnoughArgs_offbyone(n) == n > MIN_ARGC_EXCL - 1

\* line 28: if (argc > 3)
HasEnoughArgs(n) == n > MIN_ARGC_EXCL

\* (mutant) the emptiness test is dropped
NonEmpty_always(s) == TRUE

\* line 30: if (*argv[1])
NonEmpty(s) == s # ""

\* line 34: library_path = argv[2]
library_path == argv[2]

\* (mutant) the symbol name is read from the slot after the target path
SymbolIndex_fixed(n) == 3

\* line 37: symbol_name = argv[argc - 1]
SymbolIndex(n) == n - 1
symbol_name == argv[SymbolIndex(argc)]

\* line 39: strcmp("__dummy_mirror_test", library_path) == 0
IsDummyMirror(s) == s = DUMMY_MIRROR

\* line 40: printf("%s %s", library_path, symbol_name)
Printf2(a, b) == a \o " " \o b

\* (mutant) off by one: the last dependency argument is left out
NumLibArgs_short(n) == n - 5

\* (mutant) off by one: the symbol name counts as a dependency argument
NumLibArgs_long(n) == n - 3

\* line 44: additional_shared_libraries_args = argc - 4
NumLibArgs(n) == n - 4

\* (mutant) off by one: the dependency list starts at the target path
LibArgIndex_fromTarget(k) == 2 + k

\* line 56 / 98: lib_path = argv[3 + i]
LibArgIndex(k) == 3 + k

\* line 57: *lib_path == '-' && !lib_path[1]
IsMarker(s) == s = MARKER

\* A library handle is named by the argv index of the path it was opened from.
Handle(k) == <<k>>
HandleArg(h) == IF h = NULL THEN 0 ELSE h[1]

\* Loader diagnostics of the POSIX build (the text dlerror() returns).
DlopenError(path) == <<path \o ": cannot open shared object file">>
DlsymError(sym) == <<"undefined symbol: " \o sym>>
StaleError == <<"error left pending by a library constructor">>

\* Diagnostics of the Windows build (lines 102, 110, 118).
WinErrors == {"126", "127"}
WinDepMsg(res, path) ==
    "error: " \o res \o ", could not load dependent shared library " \o path \o "\n"
WinLibMsg(res, path) ==
    "error: " \o res \o ", could not load shared library " \o path \o "\n"
WinSymMsg(res, sym, path) ==
    "error: " \o res \o " loading symbol: " \o sym \o " from: " \o path \o "\n"

\* (mutant) fopen's result is returned unchecked: no fallback to stderr
error_fd_unchecked == IF log_env # NULL THEN {"file", "null"} ELSE {"stderr"}

\* lines 16-25: error_fd(): the log file when DD_TRACE_LOG_FILE is set and
\* fopen(log_env, "a") succeeds, stderr otherwise.
error_fd == IF log_env # NULL THEN {"file", "stderr"} ELSE {"stderr"}

\* fputs/fprintf(text, error_fd()) followed by return code.
Fail(text, code) ==
    \E fd \in error_fd :
        /\ log_file' = IF fd = "file" THEN Append(log_file, text) ELSE log_file
        /\ stderr_out' = IF fd = "stderr" THEN Append(stderr_out, text) ELSE stderr_out
        /\ fopen_log' = IF log_env # NULL THEN Append(fopen_log, fd = "file")
                                          ELSE fopen_log
        /\ files' = IF fd = "file" THEN files \cup {log_env[1]} ELSE files
        /\ pc' = "exit"
        /\ exit_code' = <<code>>

\* return code, with nothing written.
Return(code) ==
    /\ pc' = "exit"
    /\ exit_code' = <<code>>

\* unlink(path), result ignored: removes the file, or fails and changes nothing.
Unlink(path, k) ==
    \E ok \in (IF path \in files THEN BOOLEAN ELSE {FALSE}) :
        /\ files' = IF ok THEN files \ {path} ELSE files
        /\ events' = Append(events, Ev("unlink", k, ok))

\* dlclose(h), result ignored.
Dlclose(h) ==
    \E ok \in (IF h \in loaded THEN BOOLEAN ELSE {FALSE}) :
        /\ loaded' = IF ok THEN loaded \ {h} ELSE loaded
        /\ events' = Append(events, Ev("close", HandleArg(h), ok))

\* The hook proof of concept is a separate program: while the trampoline
\* runs it is not running.
HookIdle == [variant |-> "none"]

\* --------------------------------------------------------------- start

Init ==
    /\ platform \in Platforms
    /\ argv \in Argvs
    /\ log_env \in LogEnvs
    /\ pc = "start"
    /\ i = 0
    /\ handles = NULL
    /\ count = 0
    /\ unlink_next = FALSE
    /\ handle = NULL
    /\ fn = NULL
    /\ dl_error = NULL
    /\ files = InitialFiles
    /\ loaded = {}
    /\ stdout = ""
    /\ log_file \in (IF log_env = NULL THEN {<<>>} ELSE {<<>>, PriorLog})
    /\ log_prior = log_file
    /\ stderr_out = <<>>
    /\ fopen_log = <<>>
    /\ events = <<>>
    /\ exit_code = <<>>
    /\ hook = HookIdle

inputs == <<platform, argv, log_env, log_prior>>
posix_locals == <<handles, count, unlink_next>>
outputs == <<stdout, log_file, stderr_out, fopen_log>>

\* lines 28, 127: if (argc > 3) ... else return 12
CheckArgs ==
    /\ pc = "start"
    /\ IF HasEnoughArgs(argc)
         THEN pc' = "cleanup" /\ UNCHANGED exit_code
         ELSE Return(EXIT_BAD_ARGS)
    /\ UNCHANGED <<hook, inputs, i, posix_locals, handle, fn, dl_error, files, loaded,
                   outputs, events>>

\* (mutant) the temp file is never removed
CleanupTemp_skipped ==
    /\ pc = "cleanup"
    /\ pc' = "mirror"
    /\ UNCHANGED <<hook, inputs, i, posix_locals, handle, fn, dl_error, files, loaded,
                   outputs, events, exit_code>>

\* lines 30-32: remove the temp file of this trampoline
CleanupTemp ==
    /\ pc = "cleanup"
    /\ IF NonEmpty(argv[1])
         THEN Unlink(argv[1], 1)
         ELSE UNCHANGED <<files, events>>
    /\ pc' = "mirror"
    /\ UNCHANGED <<hook, inputs, i, posix_locals, handle, fn, dl_error, loaded, outputs,
                   exit_code>>

\* lines 34-44: the dummy-mirror test hook, else on to the build's loader
DummyMirror ==
    /\ pc = "mirror"
    /\ IF IsDummyMirror(library_path)
         THEN /\ stdout' = stdout \o Printf2(library_path, symbol_name)
              /\ Return(EXIT_OK)
         ELSE /\ pc' = IF platform = "posix" THEN "alloc" ELSE "w_dep_loop"
              /\ UNCHANGED <<stdout, exit_code>>
    /\ UNCHANGED <<hook, inputs, i, posix_locals, handle, fn, dl_error, files, loaded,
                   log_file, stderr_out, fopen_log, events>>

\* ------------------------------------------------- POSIX build (47-95)

\* lines 47-55: handles = calloc(args, sizeof(void *)) when args > 0; loop init
AllocHandles ==
    /\ pc = "alloc"
    /\ handles' = IF NumLibArgs(argc) > 0
                    THEN [k \in 0..(NumLibArgs(argc) - 1) |-> NULL]
                    ELSE NULL
    /\ count' = 0
    /\ unlink_next' = FALSE
    /\ i' = 0
    /\ pc' = "dep_loop"
    /\ UNCHANGED <<hook, inputs, handle, fn, dl_error, files, loaded, outputs, events,
                   exit_code>>

\* (mutant) the marker deletes the next path at once, before it is loaded
DepMarker_eager ==
    /\ pc = "dep_loop"
    /\ i < NumLibArgs(argc)
    /\ IsMarker(argv[LibArgIndex(i)])
    /\ IF i + 1 < NumLibArgs(argc)
         THEN Unlink(argv[LibArgIndex(i + 1)], LibArgIndex(i + 1))
         ELSE UNCHANGED <<files, events>>
    /\ i' = i + 1
    /\ UNCHANGED <<hook, inputs, pc, posix_locals, handle, fn, dl_error, loaded,
                   outputs, exit_code>>

\* lines 57-60: a "-" argument sets unlink_next; continue
DepMarker ==
    /\ pc = "dep_loop"
    /\ i < NumLibArgs(argc)
    /\ IsMarker(argv[LibArgIndex(i)])
    /\ unlink_next' = TRUE
    /\ i' = i + 1
    /\ UNCHANGED <<hook, inputs, pc, handles, count, handle, fn, dl_error, files, loaded,
                   outputs, events, exit_code>>

\* lines 61-64: handles[count++] = dlopen(lib_path, ...); on NULL report, return 9
DepOpen ==
    /\ pc = "dep_loop"
    /\ i < NumLibArgs(argc)
    /\ ~IsMarker(argv[LibArgIndex(i)])
    /\ handles # NULL
    /\ \E ok \in BOOLEAN, stale \in BOOLEAN :
        LET k == LibArgIndex(i)
            h == IF ok THEN Handle(k) ELSE NULL
        IN  /\ handles' = [handles EXCEPT ![count] = h]
            /\ count' = count + 1
            /\ events' = Append(events, Ev("open", k, ok))
            /\ IF ok
                 THEN /\ loaded' = loaded \cup {h}
                      /\ dl_error' = IF stale THEN StaleError ELSE dl_error
                      /\ pc' = "dep_unlink"
                      /\ UNCHANGED <<files, outputs, exit_code>>
                 ELSE /\ ~stale
                      /\ Fail(DlopenError(argv[k])[1], EXIT_DEP_FAIL)
                      /\ dl_error' = NULL
                      /\ UNCHANGED <<loaded, stdout>>
    /\ UNCHANGED <<hook, inputs, i, unlink_next, handle, fn>>

\* (mutant) a failed unlink of a dependency aborts the run
DepUnlink_fatal ==
    /\ pc = "dep_unlink"
    /\ IF unlink_next
         THEN \E ok \in (IF argv[LibArgIndex(i)] \in files THEN BOOLEAN ELSE {FALSE}) :
                /\ files' = IF ok THEN files \ {argv[LibArgIndex(i)]} ELSE files
                /\ events' = Append(events, Ev("unlink", LibArgIndex(i), ok))
                /\ unlink_next' = FALSE
                /\ IF ok THEN i' = i + 1 /\ pc' = "dep_loop" /\ UNCHANGED exit_code
                         ELSE Return(EXIT_DEP_FAIL) /\ UNCHANGED i
         ELSE /\ i' = i + 1
              /\ pc' = "dep_loop"
              /\ UNCHANGED <<files, events, unlink_next, exit_code>>
    /\ UNCHANGED <<hook, inputs, handles, count, handle, fn, dl_error, loaded, outputs>>

\* (mutant) unlink_next is not reset, so the marker persists to later paths
DepUnlink_keepsFlag ==
    /\ pc = "dep_unlink"
    /\ IF unlink_next
         THEN Unlink(argv[LibArgIndex(i)], LibArgIndex(i))
         ELSE UNCHANGED <<files, events>>
    /\ i' = i + 1
    /\ pc' = "dep_loop"
    /\ UNCHANGED <<hook, inputs, handles, count, unlink_next, handle, fn, dl_error, loaded,
                   outputs, exit_code>>

\* lines 65-68: unlink the library just opened when the marker preceded it
DepUnlink ==
    /\ pc = "dep_unlink"
    /\ IF unlink_next
         THEN Unlink(argv[LibArgIndex(i)], LibArgIndex(i)) /\ unlink_next' = FALSE
         ELSE UNCHANGED <<files, events, unlink_next>>
    /\ i' = i + 1
    /\ pc' = "dep_loop"
    /\ UNCHANGED <<hook, inputs, handles, count, handle, fn, dl_error, loaded, outputs,
                   exit_code>>

\* line 55: loop condition false
DepLoopEnd ==
    /\ pc = "dep_loop"
    /\ ~(i < NumLibArgs(argc))
    /\ pc' = "open_target"
    /\ UNCHANGED <<hook, inputs, i, posix_locals, handle, fn, dl_error, files, loaded,
                   outputs, events, exit_code>>

\* lines 71-75: handle = dlopen(library_path, ...); on NULL report, return 10
OpenTarget ==
    /\ pc = "open_target"
    /\ \E ok \in BOOLEAN, stale \in BOOLEAN :
        /\ handle' = IF ok THEN Handle(2) ELSE NULL
        /\ events' = Append(events, Ev("open", 2, ok))
        /\ IF ok
             THEN /\ loaded' = loaded \cup {Handle(2)}
                  /\ dl_error' = IF stale THEN StaleError ELSE dl_error
                  /\ pc' = "clear_error"
                  /\ UNCHANGED <<files, outputs, exit_code>>
             ELSE /\ ~stale
                  /\ Fail(DlopenError(library_path)[1], EXIT_LIB_FAIL)
                  /\ dl_error' = NULL
                  /\ UNCHANGED <<loaded, stdout>>
    /\ UNCHANGED <<hook, inputs, i, posix_locals, fn>>

\* (mutant) the pending error is not cleared before dlsym
ClearError_skipped ==
    /\ pc = "clear_error"
    /\ pc' = "resolve"
    /\ UNCHANGED <<hook, inputs, i, posix_locals, handle, fn, dl_error, files, loaded,
                   outputs, events, exit_code>>

\* line 78: (void)dlerror(): clear any previous errors
ClearError ==
    /\ pc = "clear_error"
    /\ dl_error' = NULL
    /\ pc' = "resolve"
    /\ UNCHANGED <<hook, inputs, i, posix_locals, handle, fn, files, loaded, outputs,
                   events, exit_code>>

\* lines 80-86: fn = dlsym(handle, symbol_name); if dlerror() != NULL report,
\* return 11
Resolve ==
    /\ pc = "resolve"
    /\ \E found \in BOOLEAN :
        LET pending == IF found THEN dl_error ELSE DlsymError(symbol_name)
            error == pending
        IN  /\ fn' = IF found THEN <<HandleArg(handle), symbol_name>> ELSE NULL
            /\ events' = Append(events, Ev("resolve", SymbolIndex(argc), found))
            /\ dl_error' = NULL
            /\ IF error # NULL
                 THEN Fail(error[1], EXIT_SYM_FAIL) /\ UNCHANGED stdout
                 ELSE pc' = "call" /\ UNCHANGED <<files, outputs, exit_code>>
    /\ UNCHANGED <<hook, inputs, i, posix_locals, handle, loaded>>

\* line 87: (*fn)()
Call ==
    /\ pc = "call"
    /\ events' = Append(events, Ev("call", SymbolIndex(argc), fn # NULL))
    /\ pc' = "close_target"
    /\ UNCHANGED <<hook, inputs, i, posix_locals, handle, fn, dl_error, files, loaded,
                   outputs, exit_code>>

\* (mutant) the target handle is never released
CloseTarget_skipped ==
    /\ pc = "close_target"
    /\ i' = 0
    /\ pc' = "close_deps"
    /\ UNCHANGED <<hook, inputs, posix_locals, handle, fn, dl_error, files, loaded,
                   outputs, events, exit_code>>

\* line 88: dlclose(handle)
CloseTarget ==
    /\ pc = "close_target"
    /\ Dlclose(handle)
    /\ i' = 0
    /\ pc' = "close_deps"
    /\ UNCHANGED <<hook, inputs, posix_locals, handle, fn, dl_error, files, outputs,
                   exit_code>>

\* lines 90-93: dlclose(handles[i]) for i < additional_shared_libraries_count
CloseDep ==
    /\ pc = "close_deps"
    /\ handles # NULL
    /\ i < count
    /\ Dlclose(handles[i])
    /\ i' = i + 1
    /\ UNCHANGED <<hook, inputs, pc, posix_locals, handle, fn, dl_error, files, outputs,
                   exit_code>>

\* line 94: free(handles), once the loop is over
FreeHandles ==
    /\ pc = "close_deps"
    /\ handles # NULL
    /\ ~(i < count)
    /\ pc' = "return"
    /\ UNCHANGED <<hook, inputs, i, posix_locals, handle, fn, dl_error, files, loaded,
                   outputs, events, exit_code>>

\* line 90: handles == NULL, nothing to release
NoHandles ==
    /\ pc = "close_deps"
    /\ handles = NULL
    /\ pc' = "return"
    /\ UNCHANGED <<hook, inputs, i, posix_locals, handle, fn, dl_error, files, loaded,
                   outputs, events, exit_code>>

\* line 124: return 0
ReturnOk ==
    /\ pc = "return"
    /\ Return(EXIT_OK)
    /\ UNCHANGED <<hook, inputs, i, posix_locals, handle, fn, dl_error, files, loaded,
                   outputs, events>>

\* ----------------------------------------------- Windows build (97-122)

\* lines 97-105: handle = LoadLibrary(lib_path) for every dependency argument;
\* on NULL report, return 9.  The handle is local to the loop body.
WinDepOpen ==
    /\ pc = "w_dep_loop"
    /\ i < NumLibArgs(argc)
    /\ \E ok \in BOOLEAN :
        LET k == LibArgIndex(i)
        IN  /\ events' = Append(events, Ev("open", k, ok))
            /\ IF ok
                 THEN /\ loaded' = loaded \cup {Handle(k)}
                      /\ i' = i + 1
                      /\ UNCHANGED <<pc, files, outputs, exit_code>>
                 ELSE /\ \E res \in WinErrors :
                            Fail(WinDepMsg(res, argv[k]), EXIT_DEP_FAIL)
                      /\ UNCHANGED <<i, loaded, stdout>>
    /\ UNCHANGED <<hook, inputs, posix_locals, handle, fn, dl_error>>

\* line 97: loop condition false
WinDepLoopEnd ==
    /\ pc = "w_dep_loop"
    /\ ~(i < NumLibArgs(argc))
    /\ pc' = "w_open_target"
    /\ UNCHANGED <<hook, inputs, i, posix_locals, handle, fn, dl_error, files, loaded,
                   outputs, events, exit_code>>

\* lines 107-112: handle = LoadLibrary(library_path); on NULL report, return 10
WinOpenTarget ==
    /\ pc = "w_open_target"
    /\ \E ok \in BOOLEAN :
        /\ handle' = IF ok THEN Handle(2) ELSE NULL
        /\ events' = Append(events, Ev("open", 2, ok))
        /\ IF ok
             THEN /\ loaded' = loaded \cup {Handle(2)}
                  /\ pc' = "w_resolve"
                  /\ UNCHANGED <<files, outputs, exit_code>>
             ELSE /\ \E res \in WinErrors :
                        Fail(WinLibMsg(res, library_path), EXIT_LIB_FAIL)
                  /\ UNCHANGED <<loaded, stdout>>
    /\ UNCHANGED <<hook, inputs, i, posix_locals, fn, dl_error>>

\* lines 114-120: fn = GetProcAddress(handle, symbol_name); if (!fn) report,
\* return 11
WinResolve ==
    /\ pc = "w_resolve"
    /\ \E found \in BOOLEAN :
        /\ fn' = IF found THEN <<HandleArg(handle), symbol_name>> ELSE NULL
        /\ events' = Append(events, Ev("resolve", SymbolIndex(argc), found))
        /\ IF fn' = NULL
             THEN /\ \E res \in WinErrors :
                        Fail(WinSymMsg(res, symbol_name, library_path), EXIT_SYM_FAIL)
                  /\ UNCHANGED stdout
             ELSE pc' = "w_call" /\ UNCHANGED <<files, outputs, exit_code>>
    /\ UNCHANGED <<hook, inputs, i, posix_locals, handle, dl_error, loaded>>

\* line 122: (*fn)()
WinCall ==
    /\ pc = "w_call"
    /\ events' = Append(events, Ev("call", SymbolIndex(argc), fn # NULL))
    /\ pc' = "return"
    /\ UNCHANGED <<hook, inputs, i, posix_locals, handle, fn, dl_error, files, loaded,
                   outputs, exit_code>>

\* ---------------------------------------------------------- specification

Next ==
    \/ CheckArgs
    \/ CleanupTemp
    \/ DummyMirror
    \/ AllocHandles
    \/ DepMarker
    \/ DepOpen
    \/ DepUnlink
    \/ DepLoopEnd
    \/ OpenTarget
    \/ ClearError
    \/ Resolve
    \/ Call
    \/ CloseTarget
    \/ CloseDep
    \/ FreeHandles
    \/ NoHandles
    \/ ReturnOk
    \/ WinDepOpen
    \/ WinDepLoopEnd
    \/ WinOpenTarget
    \/ WinResolve
    \/ WinCall

Spec == Init /\ [][Next]_vars

\* ------------------------------------- the same program, calloc may fail

\* lines 49-51: calloc returns NULL and the result is not tested
AllocHandlesFail ==
    /\ pc = "alloc"
    /\ NumLibArgs(argc) > 0
    /\ handles' = NULL
    /\ count' = 0
    /\ unlink_next' = FALSE
    /\ i' = 0
    /\ pc' = "dep_loop"
    /\ UNCHANGED <<hook, inputs, handle, fn, dl_error, files, loaded, outputs, events,
                   exit_code>>

\* line 61 with handles == NULL: dlopen is called, then its result is stored
\* through the null pointer; the process is killed by the fault and returns
\* no exit code of its own.
DepOpenNull ==
    /\ pc = "dep_loop"
    /\ i < NumLibArgs(argc)
    /\ ~IsMarker(argv[LibArgIndex(i)])
    /\ handles = NULL
    /\ \E ok \in BOOLEAN :
        LET k == LibArgIndex(i)
        IN  /\ events' = Append(events, Ev("open", k, ok))
            /\ loaded' = IF ok THEN loaded \cup {Handle(k)} ELSE loaded
            /\ dl_error' = IF ok THEN dl_error ELSE DlopenError(argv[k])
    /\ pc' = "crashed"
    /\ UNCHANGED <<hook, inputs, i, posix_locals, handle, fn, files, outputs,
                   exit_code>>

NextAlloc ==
    \/ Next
    \/ AllocHandlesFail
    \/ DepOpenNull

SpecAlloc == Init /\ [][NextAlloc]_vars

\* ------------------- the start-up hook proof of concept (c_agent_poc)
\*
\* A separate program: a preloaded library that forks an agent before the
\* host program's main runs.  main.c interposes __libc_start_main;
\* main_init.c is a library constructor.  hook is a record:
\*   variant    which of the two files was built
\*   main_orig  main.c's static main_orig: NULL or the host's main
\*   orig       main.c's local orig: NULL or the real __libc_start_main
\*   parent     position of the process that was started
\*   child      position of the forked process, "none" while there is none
\*   trace      what the two processes did, in order
\*   status     each process's exit status: <<>> or <<rc>>
\* The parent and the child run concurrently after the fork.  After a
\* constructor returns the C runtime goes on to call the host's main.

HookVariants == {"libc_start_main", "constructor"}
HostReturns == {0, 1}
HOST_MAIN == <<"main">>
LIBC_START_MAIN == <<"__libc_start_main">>
Procs == {"parent", "child"}
HEv(proc, op) == [proc |-> proc, op |-> op]

trampoline_vars == <<platform, argv, log_env, log_prior, pc, i, handles, count,
                     unlink_next, handle, fn, dl_error, files, loaded, stdout,
                     log_file, stderr_out, fopen_log, events, exit_code>>

\* While the hook runs the trampoline is not running.
TrampolineIdle ==
    /\ platform = "posix"
    /\ argv = [k \in {0} |-> "host"]
    /\ log_env = NULL
    /\ log_prior = <<>>
    /\ pc = "idle"
    /\ i = 0
    /\ handles = NULL
    /\ count = 0
    /\ unlink_next = FALSE
    /\ handle = NULL
    /\ fn = NULL
    /\ dl_error = NULL
    /\ files = {}
    /\ loaded = {}
    /\ stdout = ""
    /\ log_file = <<>>
    /\ stderr_out = <<>>
    /\ fopen_log = <<>>
    /\ events = <<>>
    /\ exit_code = <<>>

\* main.c: the dynamic loader calls the interposed __libc_start_main;
\* main_init.c: it calls the constructor init().  main_orig is a static, so
\* it starts as NULL.
InitHook ==
    /\ TrampolineIdle
    /\ \E v \in HookVariants :
          hook = [variant   |-> v,
                  main_orig |-> NULL,
                  orig      |-> NULL,
                  parent    |-> IF v = "libc_start_main" THEN "start" ELSE "fork",
                  child     |-> "none",
                  trace     |-> <<>>,
                  status    |-> [p \in Procs |-> <<>>]]

\* main.c line 33: main_orig = main
CaptureMain ==
    /\ hook.variant = "libc_start_main"
    /\ hook.parent = "start"
    /\ hook' = [hook EXCEPT !.main_orig = HOST_MAIN,
                            !.parent = "lookup",
                            !.trace = Append(@, HEv("parent", "capture"))]
    /\ UNCHANGED trampoline_vars

\* main.c line 35: orig = dlsym(RTLD_NEXT, "__libc_start_main")
LookupOrig ==
    /\ hook.parent = "lookup"
    /\ \E ok \in BOOLEAN :
          hook' = [hook EXCEPT !.orig = IF ok THEN LIBC_START_MAIN ELSE NULL,
                              !.parent = "enter"]
    /\ UNCHANGED trampoline_vars

\* main.c line 37: orig(main_hook, ...) runs main_hook as the program's main;
\* with orig == NULL the call faults.
EnterHook ==
    /\ hook.parent = "enter"
    /\ hook' = [hook EXCEPT !.parent = IF hook.orig # NULL THEN "fork" ELSE "crashed"]
    /\ UNCHANGED trampoline_vars

\* main.c line 10, main_init.c line 10: child_pid = fork(); on failure (-1)
\* there is no child and the parent's branch is taken.
Fork ==
    /\ hook.parent = "fork"
    /\ \E ok \in BOOLEAN :
          hook' = [hook EXCEPT !.child = IF ok THEN "exec" ELSE "none",
                              !.parent = "print",
                              !.trace = Append(@, HEv("parent",
                                            IF ok THEN "fork" ELSE "fork_failed"))]
    /\ UNCHANGED trampoline_vars

\* main.c line 24, main_init.c line 23: printf("Running from parent\n")
ParentPrint ==
    /\ hook.parent = "print"
    /\ hook' = [hook EXCEPT !.parent = "sleep",
                            !.trace = Append(@, HEv("parent", "print"))]
    /\ UNCHANGED trampoline_vars

\* main.c line 25, main_init.c line 24: sleep(3)
ParentSleep ==
    /\ hook.parent = "sleep"
    /\ hook' = [hook EXCEPT !.parent = IF hook.variant = "libc_start_main"
                                         THEN "call_main" ELSE "init_return",
                            !.trace = Append(@, HEv("parent", "sleep"))]
    /\ UNCHANGED trampoline_vars

\* main.c line 26: return main_orig(argc, argv, envp)
ParentMainOrig ==
    /\ hook.parent = "call_main"
    /\ \E rc \in HostReturns :
          hook' = [hook EXCEPT !.parent = IF hook.main_orig = HOST_MAIN
                                             THEN "exited" ELSE "crashed",
                              !.trace = IF hook.main_orig = HOST_MAIN
                                          THEN Append(@, HEv("parent", "host_main"))
                                          ELSE @,
                              !.status["parent"] = IF hook.main_orig = HOST_MAIN
                                                     THEN <<rc>> ELSE @]
    /\ UNCHANGED trampoline_vars

\* main_init.c lines 25-27: init() returns in the parent (the call of
\* main_orig is commented out) and the runtime calls the host's main.
ParentInitReturn ==
    /\ hook.parent = "init_return"
    /\ \E rc \in HostReturns :
          hook' = [hook EXCEPT !.parent = "exited",
                              !.trace = Append(@, HEv("parent", "host_main")),
                              !.status["parent"] = <<rc>>]
    /\ UNCHANGED trampoline_vars

\* main.c line 20, main_init.c line 20: execve("datadog-agent", ...); on
\* success the child becomes the agent, on failure execve returns.
ChildExec ==
    /\ hook.child = "exec"
    /\ \E ok \in BOOLEAN :
          hook' = [hook EXCEPT !.child = IF ok THEN "agent" ELSE "exec_failed",
                              !.trace = Append(@, HEv("child",
                                            IF ok THEN "exec" ELSE "exec_failed"))]
    /\ UNCHANGED trampoline_vars

\* main.c line 21: return 0 from main_hook, so the child exits with 0
ChildReturn ==
    /\ hook.variant = "libc_start_main"
    /\ hook.child = "exec_failed"
    /\ hook' = [hook EXCEPT !.child = "exited",
                            !.status["child"] = <<0>>]
    /\ UNCHANGED trampoline_vars

\* main_init.c lines 20-27: nothing follows execve in the child's branch, so
\* init() returns in the child and the runtime calls the host's main there.
ChildInitReturn ==
    /\ hook.variant = "constructor"
    /\ hook.child = "exec_failed"
    /\ \E rc \in HostReturns :
          hook' = [hook EXCEPT !.child = "exited",
                              !.trace = Append(@, HEv("child", "host_main")),
                              !.status["child"] = <<rc>>]
    /\ UNCHANGED trampoline_vars

NextHook ==
    \/ CaptureMain
    \/ LookupOrig
    \/ EnterHook
    \/ Fork
    \/ ParentPrint
    \/ ParentSleep
    \/ ParentMainOrig
    \/ ParentInitReturn
    \/ ChildExec
    \/ ChildReturn
    \/ ChildInitReturn

SpecHook == InitHook /\ [][NextHook]_vars

TypeOK ==
    /\ platform \in Platforms
    /\ pc \in {"start", "cleanup", "mirror", "alloc", "dep_loop", "dep_unlink",
               "open_target", "clear_error", "resolve", "call", "close_target",
               "close_deps", "return", "w_dep_loop", "w_open_target", "w_resolve",
               "w_call", "exit", "crashed"}
    /\ exit_code \in {<<>>, <<EXIT_OK>>, <<EXIT_DEP_FAIL>>, <<EXIT_LIB_FAIL>>,
                      <<EXIT_SYM_FAIL>>, <<EXIT_BAD_ARGS>>}
    /\ (pc = "exit") <=> (exit_code # <<>>)

\* ------------------------------------------------- vocabulary of the claims

Idx == 1..Len(events)

\* Positions of the dependency arguments, and of those that are paths.
DepIdx == 3..(argc - 2)
PathIdx == {k \in DepIdx : argv[k] # "-"}

Happened(op, arg, ok) == \E j \in Idx : events[j] = Ev(op, arg, ok)
Before(op, arg, ok, j) == \E m \in 1..(j - 1) : events[m] = Ev(op, arg, ok)
NumOf(op) == Cardinality({j \in Idx : events[j].op = op})

TooFewArgs == argc < 4
MirrorMode == argc >= 4 /\ argv[2] = "__dummy_mirror_test"
FullRun == argc >= 4 /\ argv[2] # "__dummy_mirror_test"
Exited(code) == pc = "exit" /\ exit_code = <<code>>

\* The lines this run appended to the log file, and everything it wrote to
\* the error sink.
Appended ==
    IF Len(log_file) >= Len(PriorLog) /\ Len(PriorLog) > 0
       /\ SubSeq(log_file, 1, Len(PriorLog)) = PriorLog
      THEN SubSeq(log_file, Len(PriorLog) + 1, Len(log_file))
      ELSE log_file
Diagnostics == Appended \o stderr_out

DepOpenFailed == \E j \in Idx : events[j].op = "open" /\ events[j].arg >= 3 /\ ~events[j].ok
TargetOpenFailed == Happened("open", 2, FALSE)
ResolveFailed == \E j \in Idx : events[j].op = "resolve" /\ ~events[j].ok

\* ------------------------------------------------------------------ claims

\* C1: an invocation with fewer than 4 arguments (program name included) exits
\* with code 12 and writes nothing to the error sink; no file is deleted, no
\* library is opened and nothing is written to standard output.
C1_TooFewArgsExit12 ==
    TooFewArgs =>
        /\ pc \in {"start", "exit"}
        /\ pc = "exit" => exit_code = <<12>>
        /\ Diagnostics = <<>>
        /\ files = InitialFiles
        /\ events = <<>>
        /\ loaded = {}
        /\ stdout = ""

\* C1 witness: three arguments with a non-empty temp path have exited.
C1_Witness == argc = 3 /\ argv[1] # "" /\ Exited(12)

\* C2: main returns exactly one code of {0, 9, 10, 11, 12}, the code of the
\* first failing step in the order validate, load dependencies, load target,
\* resolve symbol (12 on too few arguments, else 0 in dummy-mirror mode, else
\* 9 / 10 / 11 for a failed dependency open / target open / resolution, else
\* 0); no step is retried and no step runs after a failure.
C2_ExitCodeOfFirstFailure ==
    /\ Len(exit_code) <= 1
    /\ pc = "exit" =>
        /\ Len(exit_code) = 1
        /\ exit_code[1] \in {0, 9, 10, 11, 12}
        /\ ~ENABLED Next
        /\ exit_code[1] = 12 <=> TooFewArgs
        /\ MirrorMode => exit_code[1] = 0
        /\ FullRun =>
            /\ exit_code[1] = 9 <=> DepOpenFailed
            /\ exit_code[1] = 10 <=> (~DepOpenFailed /\ TargetOpenFailed)
            /\ exit_code[1] = 11 <=>
                   (~DepOpenFailed /\ ~TargetOpenFailed /\ ResolveFailed)
            /\ exit_code[1] = 0 <=>
                   (~DepOpenFailed /\ ~TargetOpenFailed /\ ~ResolveFailed)
            /\ exit_code[1] \in {0, 11} => Happened("open", 2, TRUE)
            /\ exit_code[1] = 0 =>
                   Happened("resolve", argc - 1, TRUE) /\ NumOf("call") = 1
    \* nothing is retried
    /\ \A j, k \in Idx :
          (j < k /\ events[j].op = events[k].op
             /\ events[j].op \in {"open", "resolve", "call"})
          => events[j].arg # events[k].arg
    \* nothing runs after a failed step
    /\ \A j \in Idx :
          (events[j].op \in {"open", "resolve"} /\ ~events[j].ok)
          => (j = Len(events) /\ pc = "exit")

\* C2 witness: the target failed to open after two dependencies had loaded.
C2_Witness ==
    /\ Exited(10)
    /\ Cardinality({j \in Idx : events[j].op = "open" /\ events[j].ok}) >= 2

\* C3: the resolved symbol is invoked exactly once on the success path and
\* never on any other path (exit 9, 10, 11, 12, dummy-mirror mode); when it is
\* invoked every non-marker dependency and the target have been opened
\* successfully, the symbol has been resolved and no handle has been released.
C3_InvokedOnceWhenReady ==
    /\ NumOf("call") <= 1
    /\ pc = "exit" =>
          (NumOf("call") = 1 <=> (FullRun /\ exit_code = <<0>>))
    /\ \A j \in Idx : events[j].op = "call" =>
          /\ events[j].ok
          /\ fn # NULL
          /\ \A k \in PathIdx : Before("open", k, TRUE, j)
          /\ Before("open", 2, TRUE, j)
          /\ Before("resolve", argc - 1, TRUE, j)
          /\ \A m \in 1..(j - 1) : events[m].op # "close"
          /\ j = Len(events) => {Handle(k) : k \in PathIdx \cup {2}} \subseteq loaded

\* C3 witness: the symbol has just been invoked after a marked and an unmarked
\* dependency were loaded.
C3_Witness ==
    /\ NumOf("call") = 1
    /\ events[Len(events)].op = "call"
    /\ Cardinality(PathIdx) >= 2
    /\ PathIdx # DepIdx

\* C4: dependency libraries are opened in the order of their arguments, each
\* at most once, and the target is opened only after every dependency path has
\* been opened successfully, never before or between dependencies.
C4_DependenciesInOrderThenTarget ==
    /\ \A j, k \in Idx :
          (j < k /\ events[j].op = "open" /\ events[k].op = "open") =>
              /\ events[j].arg >= 3
              /\ events[k].arg >= 3 => events[j].arg < events[k].arg
    /\ \A j \in Idx : (events[j].op = "open" /\ events[j].arg = 2) =>
          \A k \in PathIdx : Before("open", k, TRUE, j)
    /\ \A j \in Idx : events[j].op = "open" =>
          events[j].arg \in DepIdx \cup {2}

\* C4 witness: the target has been opened after two dependency paths.
C4_Witness ==
    /\ Happened("open", 2, TRUE)
    /\ Cardinality(PathIdx) >= 2
    /\ pc \in {"clear_error", "w_resolve"}

\* Handles of the dependencies opened successfully so far.
OpenedOk == {Handle(events[j].arg) : j \in {m \in Idx : events[m].op = "open" /\ events[m].ok}}

\* Exactly one diagnostic, with text, has been written to the error sink.
OneDiagnostic == Len(Diagnostics) = 1 /\ Diagnostics[1] # ""

\* C5: when opening a dependency fails the loader's error text is written to
\* the error sink and the process exits with code 9 at once: no later
\* dependency and not the target is opened, the symbol is neither resolved nor
\* invoked, and no dependency handle opened earlier is released.
C5_DependencyFailureExits9 ==
    \A j \in Idx :
        (events[j].op = "open" /\ events[j].arg >= 3 /\ ~events[j].ok) =>
            /\ Exited(9)
            /\ j = Len(events)
            /\ OneDiagnostic
            /\ platform = "posix" =>
                   Diagnostics[1] = argv[events[j].arg] \o ": cannot open shared object file"
            /\ ~Happened("open", 2, TRUE) /\ ~Happened("open", 2, FALSE)
            /\ NumOf("resolve") = 0 /\ NumOf("call") = 0 /\ NumOf("close") = 0
            /\ loaded = OpenedOk

\* C5 witness: the second dependency path failed to open after the first one
\* had loaded.
C5_Witness ==
    /\ Exited(9)
    /\ loaded # {}
    /\ Len(events) >= 2

\* C6: when the target library does not load the exit code is exactly 10, the
\* error sink receives non-empty diagnostic text and no symbol resolution is
\* attempted.
C6_TargetFailureExits10 ==
    TargetOpenFailed =>
        /\ Exited(10)
        /\ OneDiagnostic
        /\ NumOf("resolve") = 0
        /\ NumOf("call") = 0
        /\ fn = NULL

\* C6 witness: the target failed to open, with a log file configured.
C6_Witness == TargetOpenFailed /\ pc = "exit" /\ log_env # NULL /\ Appended # <<>>

\* C7: when the target loads but does not export symbol_name the exit code is
\* exactly 11, a diagnostic is written to the error sink, the symbol is not
\* invoked and no handle is released.
C7_MissingSymbolExits11 ==
    (Happened("open", 2, TRUE) /\ ResolveFailed) =>
        /\ Exited(11)
        /\ OneDiagnostic
        /\ NumOf("call") = 0
        /\ NumOf("close") = 0
        /\ loaded = OpenedOk
        /\ Handle(2) \in loaded

\* C7 witness: resolution failed with a dependency and the target loaded.
C7_Witness == ResolveFailed /\ pc = "exit" /\ Cardinality(loaded) >= 2

\* C8: in dummy-mirror mode (at least 4 arguments, target path
\* "__dummy_mirror_test"), whatever the symbol name and the dependency
\* arguments, standard output is exactly "__dummy_mirror_test <symbol_name>",
\* the exit code is 0, no dependency or target library is opened, no
\* dependency file is deleted and no symbol is resolved or invoked.
C8_DummyMirrorEcho ==
    MirrorMode =>
        /\ pc = "exit" =>
              /\ exit_code = <<0>>
              /\ stdout = "__dummy_mirror_test" \o " " \o argv[argc - 1]
        /\ pc # "exit" => stdout = ""
        /\ \A j \in Idx : events[j].op = "unlink" /\ events[j].arg = 1
        /\ loaded = {}
        /\ InitialFiles \ {argv[1]} \subseteq files
        /\ Diagnostics = <<>>

\* C8 witness: dummy-mirror mode has exited with a marker and a path among
\* three dependency arguments.
C8_Witness ==
    /\ MirrorMode
    /\ pc = "exit"
    /\ argc >= 6
    /\ PathIdx # {} /\ PathIdx # DepIdx

IsClose(e) == e.op = "close"
Closes == SelectSeq(events, IsClose)

\* C9 (as claimed): after the invoked symbol returns on the success path the
\* target handle is released first, then every dependency handle in load
\* order; every handle that was opened is released exactly once before exit 0,
\* and no handle is released before the invocation returns.
C9_ReleaseTargetThenDependencies ==
    /\ \A j \in Idx : events[j].op = "close" => Before("call", argc - 1, TRUE, j)
    /\ (FullRun /\ Exited(0)) =>
          /\ Len(Closes) = Cardinality(OpenedOk)
          /\ {Handle(Closes[m].arg) : m \in 1..Len(Closes)} = OpenedOk
          /\ Len(Closes) >= 1
          /\ Closes[1].arg = 2
          /\ \A m, n \in 2..Len(Closes) : m < n => Closes[m].arg < Closes[n].arg

\* The POSIX build does release as C9 says.
PosixReleaseTargetThenDependencies ==
    platform = "posix" => C9_ReleaseTargetThenDependencies

\* A dependency path that "-" immediately precedes in the argument list.
Marked(k) == k - 1 \in DepIdx /\ argv[k - 1] = "-"

UnlinksOf(k) == {j \in Idx : events[j].op = "unlink" /\ events[j].arg = k}

\* C10 (as claimed, of the POSIX dependency loop it is about): after a
\* successful run a dependency path's file has been deleted if and only if "-"
\* immediately precedes that path.
C10_DeletedIffMarked ==
    (platform = "posix" /\ FullRun /\ Exited(0)) =>
        \A k \in PathIdx : (argv[k] \notin files) <=> Marked(k)

\* C10 (amended): after a successful run of the POSIX build unlink has been
\* called, once, on a dependency path if and only if "-" immediately precedes
\* it (the marker does not persist to later paths); the Windows build never
\* unlinks a dependency.  Deletion is best effort: a file that existed at
\* start is gone exactly when an unlink of that name succeeded, so a path that
\* is neither marked anywhere nor the temp path still exists, and a marked
\* path may remain when its unlink failed.
C10_UnlinkCalledIffMarked ==
    (FullRun /\ Exited(0)) =>
        /\ platform = "posix" =>
              \A k \in PathIdx :
                  /\ Marked(k) <=> UnlinksOf(k) # {}
                  /\ Cardinality(UnlinksOf(k)) <= 1
        /\ platform = "win32" => \A k \in DepIdx : UnlinksOf(k) = {}
        /\ \A j \in Idx : events[j].op = "unlink" =>
              events[j].arg \in {1} \cup {k \in PathIdx : Marked(k)}
        /\ \A f \in InitialFiles :
              f \notin files <=>
                  \E j \in Idx : /\ events[j].op = "unlink"
                                 /\ events[j].ok
                                 /\ argv[events[j].arg] = f

\* C10 witness: a successful run that deleted its marked dependency and kept
\* the unmarked one that follows it.
C10_Witness ==
    /\ FullRun /\ Exited(0)
    /\ \E k \in PathIdx :
          /\ Marked(k)
          /\ k + 1 \in PathIdx
          /\ argv[k + 1] # argv[k]
          /\ argv[k] \notin files
          /\ argv[k + 1] \in files

\* C11: a marked dependency's file is deleted only after that dependency has
\* been opened successfully, and at once, before the next dependency or the
\* target is opened; a marked dependency whose open fails is never deleted.
C11_UnlinkRightAfterOpen ==
    /\ \A j \in Idx : (events[j].op = "unlink" /\ events[j].arg >= 2) =>
          /\ j > 1
          /\ events[j - 1] = Ev("open", events[j].arg, TRUE)
          /\ Marked(events[j].arg)
    /\ \A j \in Idx : (events[j].op = "open" /\ ~events[j].ok) =>
          UnlinksOf(events[j].arg) = {}
    /\ platform = "posix" =>
          \A j \in Idx :
              (/\ events[j].op = "open" /\ events[j].ok
               /\ events[j].arg \in PathIdx /\ Marked(events[j].arg))
              => IF j = Len(events)
                   THEN pc = "dep_unlink"
                   ELSE /\ events[j + 1].op = "unlink"
                        /\ events[j + 1].arg = events[j].arg

\* C11 witness: a marked dependency was unlinked and a later library opened.
C11_Witness ==
    \E j \in Idx :
        /\ events[j].op = "unlink" /\ events[j].arg >= 3
        /\ j < Len(events)
        /\ events[j + 1].op = "open"

\* C12: with at least 4 arguments, a non-empty temp path is unlinked exactly
\* once, before any dependency or target library is opened and before the
\* dummy-mirror output; an empty temp path is never unlinked.
C12_TempCleanupFirst ==
    argc >= 4 =>
        /\ pc \in {"start", "cleanup"} => (events = <<>> /\ stdout = "")
        /\ pc \notin {"start", "cleanup"} =>
              IF argv[1] # ""
                THEN /\ Len(events) >= 1
                     /\ events[1].op = "unlink" /\ events[1].arg = 1
                     /\ UnlinksOf(1) = {1}
                ELSE UnlinksOf(1) = {}

\* C12 witness: the temp file was unlinked and then a dependency was opened.
C12_Witness ==
    /\ argc >= 5 /\ argv[1] # ""
    /\ Len(events) >= 2
    /\ events[1].op = "unlink" /\ events[2].op = "open"

IsPathPos(k) == argv[k] # "-"
DepPositions == [m \in 1..(argc - 4) |-> m + 2]
PathPositions == SelectSeq(DepPositions, IsPathPos)
Step(op, k) == [op |-> op, arg |-> k]
Plan ==
    LET opens == IF platform = "posix" THEN PathPositions ELSE DepPositions
        closes == IF platform = "posix"
                    THEN <<Step("close", 2)>> \o
                         [m \in 1..Len(PathPositions) |-> Step("close", PathPositions[m])]
                    ELSE <<>>
    IN  [m \in 1..Len(opens) |-> Step("open", opens[m])]
        \o <<Step("open", 2), Step("resolve", argc - 1), Step("call", argc - 1)>>
        \o closes

\* The calls made so far, deletions left out.
IsStep(e) == e.op # "unlink"
Steps == SelectSeq(events, IsStep)
IsLoaderFailure(e) == e.op \in {"open", "resolve"} /\ ~e.ok

\* The exit code and the diagnostic a failed loader call leads to.
CodeOf(e) == IF e.op = "resolve" THEN 11 ELSE IF e.arg = 2 THEN 10 ELSE 9
TextsOf(e) ==
    IF platform = "posix"
      THEN IF e.op = "resolve" THEN {DlsymError(argv[argc - 1])[1]}
                               ELSE {DlopenError(argv[e.arg])[1]}
      ELSE {IF e.op = "resolve" THEN WinSymMsg(res, argv[argc - 1], argv[2])
            ELSE IF e.arg = 2 THEN WinLibMsg(res, argv[2])
            ELSE WinDepMsg(res, argv[e.arg]) : res \in WinErrors}

\* C14: cleanup failures never change the outcome.  Two runs with the same
\* arguments and the same open/resolve results that differ only in whether
\* deletions and handle releases succeed have the same exit code, the same
\* sequence of open/resolve/invoke/release steps and the same error-sink
\* output.  Stated of one run: the steps are the prefix of Plan that ends at
\* the first failed loader call (all of Plan when none fails), and the exit
\* code and the diagnostic are those of that call; none of these reads the
\* result of an unlink or a dlclose, and every combination of those results is
\* among the runs checked.
C14_OutcomeIndependentOfCleanup ==
    IF ~FullRun
      THEN /\ Steps = <<>>
           /\ Diagnostics = <<>>
           /\ pc = "exit" => exit_code = (IF TooFewArgs THEN <<12>> ELSE <<0>>)
      ELSE /\ Len(Steps) <= Len(Plan)
           /\ \A m \in 1..Len(Steps) :
                 /\ Steps[m].op = Plan[m].op
                 /\ Steps[m].arg = Plan[m].arg
                 /\ IsLoaderFailure(Steps[m]) => (m = Len(Steps) /\ pc = "exit")
           /\ pc # "exit" => Diagnostics = <<>>
           /\ pc = "exit" =>
                 /\ Len(Steps) >= 1
                 /\ IF IsLoaderFailure(Steps[Len(Steps)])
                      THEN /\ exit_code = <<CodeOf(Steps[Len(Steps)])>>
                           /\ Len(Diagnostics) = 1
                           /\ Diagnostics[1] \in TextsOf(Steps[Len(Steps)])
                      ELSE /\ Len(Steps) = Len(Plan)
                           /\ exit_code = <<0>>
                           /\ Diagnostics = <<>>

\* C14 witness: a run ended with exit 0 although an unlink and a dlclose
\* failed.
C14_Witness ==
    /\ Exited(0)
    /\ \E j \in Idx : events[j].op = "unlink" /\ events[j].arg >= 3 /\ ~events[j].ok
    /\ \E j \in Idx : events[j].op = "close" /\ ~events[j].ok

\* C15: on every hard failure (exit 9, 10 or 11) exactly one diagnostic is
\* written: appended to the file named by the log-path environment variable
\* if that variable is set and the file can be opened, written to standard
\* error otherwise; a hard failure is never silent.  On exits 0 and 12 the
\* sink is never opened and nothing is written to it.
C15_OneDiagnosticToSink ==
    IF pc = "exit" /\ exit_code[1] \in {9, 10, 11}
      THEN /\ Len(fopen_log) = (IF log_env # NULL THEN 1 ELSE 0)
           /\ IF log_env # NULL /\ fopen_log = <<TRUE>>
                THEN /\ Len(log_file) = Len(log_prior) + 1
                     /\ SubSeq(log_file, 1, Len(log_prior)) = log_prior
                     /\ log_file[Len(log_file)] # ""
                     /\ stderr_out = <<>>
                ELSE /\ log_file = log_prior
                     /\ Len(stderr_out) = 1
                     /\ stderr_out[1] # ""
      ELSE /\ fopen_log = <<>>
           /\ log_file = log_prior
           /\ stderr_out = <<>>

\* C15 witness: a diagnostic was appended to a log file that already had an
\* entry.
C15_Witness ==
    /\ pc = "exit"
    /\ fopen_log = <<TRUE>>
    /\ log_prior # <<>>
    /\ Len(log_file) = 2

\* The other case of C15, reachable as well: the log file could not be opened
\* and the diagnostic went to standard error.
FallbackToStderr == pc = "exit" /\ fopen_log = <<FALSE>> /\ stderr_out # <<>>

\* The calls made so far, by the name of the argument they were made on.
Named(op, name) == [op |-> op, name |-> name]
NamedSteps == [j \in Idx |-> Named(events[j].op, argv[events[j].arg])]
IsNotClose(e) == e.op # "close"
AllCallsSucceeded == \A j \in Idx : events[j].ok

\* The end-to-end invocation with the target path in its slot (argv[2]) and
\* the marker in front of libdep.so.
EndToEndArgvInOrder ==
    MkArgv("", "libtarget.so", <<MARKER, "libdep.so", "libhelper.so">>, "do_init")

\* C16 (as claimed): the invocation ("", "libdep.so", "-", "libhelper.so",
\* "libtarget.so", "do_init") with three loadable libraries loads libdep.so
\* then deletes it, loads libhelper.so and keeps it, loads libtarget.so,
\* resolves and calls do_init, releases all three handles, and exits 0.
C16_EndToEndAsWritten ==
    (platform = "posix" /\ argv = EndToEndArgv /\ pc = "exit" /\ AllCallsSucceeded) =>
        /\ exit_code = <<0>>
        /\ SelectSeq(NamedSteps, IsNotClose) =
               << Named("open", "libdep.so"), Named("unlink", "libdep.so"),
                  Named("open", "libhelper.so"), Named("open", "libtarget.so"),
                  Named("resolve", "do_init"), Named("call", "do_init") >>
        /\ "libdep.so" \notin files
        /\ "libhelper.so" \in files
        /\ Len(Closes) = 3
        /\ loaded = {}

\* C16 (amended): on the POSIX build the invocation ("", "libtarget.so", "-",
\* "libdep.so", "libhelper.so", "do_init") with three loadable libraries that
\* can be unlinked and released loads libdep.so then deletes it, loads
\* libhelper.so and keeps it, loads libtarget.so, resolves and calls do_init,
\* releases all three handles (the target's first), and exits 0.
C16_EndToEndInOrder ==
    (platform = "posix" /\ argv = EndToEndArgvInOrder /\ pc = "exit"
       /\ AllCallsSucceeded) =>
        /\ exit_code = <<0>>
        /\ NamedSteps =
               << Named("open", "libdep.so"), Named("unlink", "libdep.so"),
                  Named("open", "libhelper.so"), Named("open", "libtarget.so"),
                  Named("resolve", "do_init"), Named("call", "do_init"),
                  Named("close", "libtarget.so"), Named("close", "libdep.so"),
                  Named("close", "libhelper.so") >>
        /\ "libdep.so" \notin files
        /\ "libhelper.so" \in files
        /\ "libtarget.so" \in files
        /\ loaded = {}
        /\ Diagnostics = <<>>

\* C16 witness: the amended invocation has run to exit 0 on the POSIX build
\* with every call succeeding.
C16_Witness ==
    /\ platform = "posix"
    /\ argv = EndToEndArgvInOrder
    /\ Exited(0)
    /\ AllCallsSucceeded

\* The calls that treat their argument as a file or a library, and those that
\* treat it as a symbol.
IsFileOp(e) == e.op \in {"open", "unlink", "close"}
IsSymbolOp(e) == e.op \in {"resolve", "call"}

\* C17: with at least 4 arguments the last argument is used only as the symbol
\* name: it is never opened, released or deleted, and never read as a marker,
\* whatever its text and however many dependency arguments precede it; only
\* the temporary path and a dependency path right after a marker are ever
\* deleted, so a marker in the last dependency slot deletes nothing, and the
\* target library is never deleted.
C17_LastArgumentIsSymbolOnly ==
    argc >= 4 =>
        /\ \A j \in Idx :
              /\ IsFileOp(events[j]) => events[j].arg # argc - 1
              /\ IsSymbolOp(events[j]) => events[j].arg = argc - 1
              /\ events[j].op = "unlink" =>
                    \/ events[j].arg = 1
                    \/ events[j].arg \in PathIdx /\ Marked(events[j].arg)
        /\ (pc = "exit" /\ exit_code = <<0>> /\ ~MirrorMode) =>
              Happened("resolve", argc - 1, TRUE)

\* C17 witness: a POSIX run whose last dependency argument is a marker and
\* whose symbol name is the text "-" has resolved and called that symbol and
\* exited 0.
C17_Witness ==
    /\ platform = "posix"
    /\ argc >= 5
    /\ argv[argc - 2] = MARKER
    /\ argv[argc - 1] = MARKER
    /\ Exited(0)
    /\ Happened("call", argc - 1, TRUE)

\* C18 (as claimed): on either platform branch a dependency argument that is
\* exactly "-" is never passed to the dynamic loader; only non-marker
\* dependency arguments are opened, so exit code 9 is always due to a
\* non-marker path that failed to load.
C18_MarkerNeverOpened ==
    /\ \A j \in Idx :
          (events[j].op = "open" /\ events[j].arg \in DepIdx) =>
              ~IsMarker(argv[events[j].arg])
    /\ Exited(9) =>
          \E k \in PathIdx : Happened("open", k, FALSE)

\* The POSIX branch keeps the marker away from the loader.
PosixMarkerNeverOpened == platform = "posix" => C18_MarkerNeverOpened

\* A store into the handle array is the next statement (line 61).
WriteDue ==
    /\ platform = "posix"
    /\ pc = "dep_loop"
    /\ i < NumLibArgs(argc)
    /\ ~IsMarker(argv[LibArgIndex(i)])

\* The POSIX dependency loop is over and no load has failed.
PastDepLoop ==
    /\ platform = "posix"
    /\ FullRun
    /\ pc \in {"open_target", "clear_error", "resolve", "call", "close_target",
               "close_deps", "return", "exit"}
    /\ ~DepOpenFailed

\* C19 (as claimed): in the POSIX dependency loop every store into the handle
\* array goes to a non-null array of argc - 4 slots at an index below that
\* length; once the loop has succeeded the count equals the number of
\* non-marker dependency arguments and every slot below it holds a handle
\* that was opened successfully; teardown releases exactly those handles,
\* never an unset slot.
C19_HandleArrayDiscipline ==
    /\ WriteDue =>
          /\ handles # NULL
          /\ Cardinality(DOMAIN handles) = argc - 4
          /\ count \in DOMAIN handles
    /\ PastDepLoop =>
          /\ count = Cardinality(PathIdx)
          /\ \A k \in 0..(count - 1) :
                /\ handles[k] # NULL
                /\ Happened("open", HandleArg(handles[k]), TRUE)
          /\ {HandleArg(handles[k]) : k \in 0..(count - 1)} = PathIdx
    /\ \A j \in Idx :
          events[j].op = "close" =>
              /\ events[j].arg # 0
              /\ Before("open", events[j].arg, TRUE, j)
    /\ (platform = "posix" /\ Exited(0) /\ FullRun) =>
          {Closes[j].arg : j \in DOMAIN Closes} = PathIdx \cup {2}

\* The handle array is written with an allocation that succeeded.
HandleArrayDisciplineIfAllocated == handles # NULL => C19_HandleArrayDiscipline

\* What the hook's processes did.
HookIdx == 1..Len(hook.trace)
HostRunsBy(p) == Cardinality({j \in HookIdx : hook.trace[j] = HEv(p, "host_main")})
DidBefore(p, op, j) == \E m \in 1..(j - 1) : hook.trace[m] = HEv(p, op)
IsFork(e) == e.proc = "parent" /\ e.op \in {"fork", "fork_failed"}
NumCaptures == Cardinality({j \in HookIdx : hook.trace[j] = HEv("parent", "capture")})

\* C20 (as claimed): in both variants of the start-up hook the host's main is
\* run by the parent only, at most once and exactly once by the time the
\* parent has exited, and only after the fork and the sleep; the forked child
\* never runs it, whether its exec succeeds or fails; in the
\* __libc_start_main variant, which keeps the entry point itself, main_orig is
\* assigned once, before the fork.
C20_HostMainByParentOnly ==
    /\ HostRunsBy("child") = 0
    /\ HostRunsBy("parent") <= 1
    /\ hook.parent = "exited" => HostRunsBy("parent") = 1
    /\ \A j \in HookIdx :
          hook.trace[j] = HEv("parent", "host_main") =>
              /\ \E m \in 1..(j - 1) : IsFork(hook.trace[m])
              /\ DidBefore("parent", "sleep", j)
    /\ hook.variant = "libc_start_main" =>
          /\ NumCaptures <= 1
          /\ \A j \in HookIdx :
                IsFork(hook.trace[j]) =>
                    DidBefore("parent", "capture", j) /\ hook.main_orig = HOST_MAIN

\* The __libc_start_main variant keeps the child out of the host's main.
LibcStartMainHostMainByParentOnly ==
    hook.variant = "libc_start_main" => C20_HostMainByParentOnly

====
